---- MODULE Spec2Model ----
(***************************************************************************)
(* Model of remove_background_batch_iset_gen.py: discovery of the image    *)
(* files of a directory, derivation of each file's destination, the        *)
(* per-item processing run on a thread pool, and the aggregation of the    *)
(* outcomes by the main thread.                                            *)
(*                                                                         *)
(* A file name is a sequence of one-character strings, a path a sequence   *)
(* of names (pathlib's parts).  The filesystem is a function from the      *)
(* paths that exist to what is there.                                      *)
(***************************************************************************)
EXTENDS Integers, Sequences, FiniteSets, TLC

VARIABLES
    fs,         \* the filesystem: path -> [kind, ok, from, size]
    args,       \* the parsed command line (argparse namespace)
    pc,         \* position of main()
    files,      \* main's local 'files': the discovered paths, in order
    tasks,      \* main's local 'tasks': one record per submitted future
    ok,         \* main's local 'ok'
    fails,      \* main's local 'fails'
    bar,        \* ticks of the tqdm bar
    stdout,     \* what main has printed, in order
    listed,     \* history: list_images has been called in this run
    run,        \* history: "first" run of the batch, or the "second"
    prev,       \* history: the filesystem at the end of the first run
    fs0         \* history: the filesystem the run started on, kept by the
                \* specifications whose properties refer to it, else <<>>

vars == <<fs, args, pc, files, tasks, ok, fails, bar, stdout, listed, run, prev, fs0>>

----------------------------------------------------------------------------
(* Bounds of the model *)

\* Largest number of entries (files and directories) below input_dir.
MaxEntries == 2

\* Largest width, height and --max-size of the runs that resize.
MaxDim == 4

----------------------------------------------------------------------------
(* Strings *)

\* The ASCII letters, in the order of their code points.
UpperLetters ==
    <<"A", "B", "C", "D", "E", "F", "G", "H", "I", "J", "K", "L", "M",
      "N", "O", "P", "Q", "R", "S", "T", "U", "V", "W", "X", "Y", "Z">>

LowerLetters ==
    <<"a", "b", "c", "d", "e", "f", "g", "h", "i", "j", "k", "l", "m",
      "n", "o", "p", "q", "r", "s", "t", "u", "v", "w", "x", "y", "z">>

Digits == <<"0", "1", "2", "3", "4", "5", "6", "7", "8", "9">>

\* The place of c in sequence q, 0 when it is not there.
IndexOf(c, q) ==
    IF \E i \in 1..Len(q) : q[i] = c
    THEN CHOOSE i \in 1..Len(q) : q[i] = c
    ELSE 0

\* ord() of an ASCII letter, a digit, or one of - . _
Ord(c) ==
    CASE IndexOf(c, UpperLetters) > 0 -> 64 + IndexOf(c, UpperLetters)
      [] IndexOf(c, LowerLetters) > 0 -> 96 + IndexOf(c, LowerLetters)
      [] IndexOf(c, Digits) > 0 -> 47 + IndexOf(c, Digits)
      [] c = "-" -> 45 [] c = "." -> 46 [] c = "_" -> 95

\* str.lower() on one character: an upper-case ASCII letter becomes its
\* lower-case letter, the characters of Ord without case stay.
LowerChar(c) ==
    IF IndexOf(c, UpperLetters) > 0
    THEN LowerLetters[IndexOf(c, UpperLetters)]
    ELSE c

\* str.lower()
Lower(s) == [i \in 1..Len(s) |-> LowerChar(s[i])]

\* a < b for str: lexicographic by code point, a proper prefix first.
StrLess(a, b) ==
    \E i \in 1..(Len(b)) :
        /\ i <= Len(a) + 1
        /\ \A j \in 1..(i - 1) : a[j] = b[j]
        /\ \/ i = Len(a) + 1
           \/ Ord(a[i]) < Ord(b[i])

\* str.rfind("."), 1-based; 0 when there is no dot.
RFindDot(name) ==
    LET dots == {i \in 1..Len(name) : name[i] = "."}
    IN  IF dots = {} THEN 0 ELSE CHOOSE i \in dots : \A j \in dots : j <= i

----------------------------------------------------------------------------
(* pathlib.PurePath *)

\* PurePath.name: the last part.
Name(p) == IF Len(p) = 0 THEN <<>> ELSE p[Len(p)]

\* PurePath.parent
Parent(p) == IF Len(p) = 0 THEN p ELSE SubSeq(p, 1, Len(p) - 1)

\* PurePath.suffix: from the last dot, unless the dot leads or ends the name.
Suffix(p) ==
    LET name == Name(p)
        i    == RFindDot(name)
    IN  IF 1 < i /\ i < Len(name) THEN SubSeq(name, i, Len(name)) ELSE <<>>

\* PurePath.stem: the name without its suffix.
Stem(p) ==
    LET name == Name(p)
        i    == RFindDot(name)
    IN  IF 1 < i /\ i < Len(name) THEN SubSeq(name, 1, i - 1) ELSE name

\* PurePath.with_suffix(suffix), for a path with a name.
WithSuffix(p, suffix) ==
    LET name == Name(p)
        old  == Suffix(p)
        new  == IF old = <<>> THEN name \o suffix
                ELSE SubSeq(name, 1, Len(name) - Len(old)) \o suffix
    IN  Append(Parent(p), new)

\* a / b
Join(a, b) == a \o b

IsPrefix(d, p) == Len(d) <= Len(p) /\ SubSeq(p, 1, Len(d)) = d

\* PurePath.relative_to(other), for a path below other.
RelativeTo(p, other) == SubSeq(p, Len(other) + 1, Len(p))

\* PurePath.__lt__: the parts compared as lists of str.
PathLess(p, q) ==
    \E i \in 1..Len(q) :
        /\ i <= Len(p) + 1
        /\ \A j \in 1..(i - 1) : p[j] = q[j]
        /\ \/ i = Len(p) + 1
           \/ StrLess(p[i], q[i])

\* sorted(): the paths of a set in ascending order.
RECURSIVE Sorted(_)
Sorted(S) ==
    IF S = {} THEN <<>>
    ELSE LET m == CHOOSE x \in S : \A y \in S \ {x} : PathLess(x, y)
         IN  <<m>> \o Sorted(S \ {m})

----------------------------------------------------------------------------
(* The filesystem *)

DirEntry == [kind |-> "dir", ok |-> FALSE, from |-> <<>>]

\* A file: 'ok' says whether it decodes as an image, 'from' names the source
\* whose transform wrote it (<<>> for a file the run did not write), 'size'
\* is the image's (width, height).
ImageEntry(decodes, src, size) ==
    [kind |-> "file", ok |-> decodes, from |-> src, size |-> size]

\* The size of the images whose size plays no part.
DefaultSize == <<2, 2>>

FileEntry(decodes, src) == ImageEntry(decodes, src, DefaultSize)

\* Path.exists()
Exists(f, p) == p = <<>> \/ p \in DOMAIN f

\* Path.is_dir()
IsDir(f, p) == p = <<>> \/ (p \in DOMAIN f /\ f[p].kind = "dir")

\* Path.is_file()
IsFile(f, p) == p \in DOMAIN f /\ f[p].kind = "file"

\* Path.iterdir(): the direct children.
Iterdir(f, d) == {p \in DOMAIN f : Len(p) = Len(d) + 1 /\ IsPrefix(d, p)}

\* Path.rglob("*"): every descendant, files and directories alike.
Rglob(f, d) == {p \in DOMAIN f : Len(p) > Len(d) /\ IsPrefix(d, p)}

\* The proper ancestors of p and p itself.
Prefixes(p) == {SubSeq(p, 1, n) : n \in 1..Len(p)}

\* Path.mkdir(parents=True, exist_ok=True): the exception it raises, or "none".
MkdirError(f, p) ==
    IF IsFile(f, p) THEN "FileExistsError"
    ELSE IF \E q \in Prefixes(p) : IsFile(f, q) THEN "NotADirectoryError"
    ELSE "none"

\* Path.mkdir(parents=True, exist_ok=True): the filesystem after a call that
\* raises nothing: p and its missing ancestors are directories.
Mkdir(f, p) ==
    LET missing == {q \in Prefixes(p) : q \notin DOMAIN f}
    IN  [q \in missing |-> DirEntry] @@ f

\* What the kernel answers while it walks to p's directory: the first
\* ancestor that is no directory decides, ENOTDIR when it is a file, ENOENT
\* when it is missing; "none" when every ancestor is a directory.
ResolveError(f, p) ==
    LET bad == {q \in Prefixes(Parent(p)) : ~IsDir(f, q)}
    IN  IF bad = {} THEN "none"
        ELSE LET q == CHOOSE x \in bad : \A y \in bad : Len(x) <= Len(y)
             IN  IF IsFile(f, q) THEN "NotADirectoryError"
                 ELSE "FileNotFoundError"

\* os.mkdir(p), the one system call: the exception, or "none".
OsMkdirError(f, p) ==
    IF ResolveError(f, p) # "none" THEN ResolveError(f, p)
    ELSE IF Exists(f, p) THEN "FileExistsError"
    ELSE "none"

\* Line 37, Image.open(p): open(p, "rb") and the read of the header; the
\* exception, or "none".
OpenError(f, p) ==
    IF ResolveError(f, p) # "none" THEN ResolveError(f, p)
    ELSE IF ~Exists(f, p) THEN "FileNotFoundError"
    ELSE IF IsDir(f, p) THEN "IsADirectoryError"
    ELSE IF ~f[p].ok THEN "UnidentifiedImageError"
    ELSE "none"

\* Line 50, the open(p, "w+b") of Image.save: the exception the filesystem
\* forces, or "none".
SaveError(f, p) ==
    IF ResolveError(f, p) # "none" THEN ResolveError(f, p)
    ELSE IF IsDir(f, p) THEN "IsADirectoryError"
    ELSE "none"

\* os.remove(p), as Linux answers it: the exception, or "none".  A
\* directory gives EISDIR.
RemoveError(f, p) ==
    IF ResolveError(f, p) # "none" THEN ResolveError(f, p)
    ELSE IF ~Exists(f, p) THEN "FileNotFoundError"
    ELSE IF IsDir(f, p) THEN "IsADirectoryError"
    ELSE "none"

\* os.remove(p) on a file.
RemoveFile(f, p) == [q \in DOMAIN f \ {p} |-> f[q]]

\* What a path that names nothing holds.
NoEntry == [kind |-> "none", ok |-> FALSE, from |-> <<>>]

\* The filesystem with file p holding e.
WriteFile(f, p, e) == [q \in {p} |-> e] @@ [q \in DOMAIN f \ {p} |-> f[q]]

----------------------------------------------------------------------------
(* The program's pure functions *)

Dot == "."

ExtJpg  == <<Dot, "j", "p", "g">>
ExtJpeg == <<Dot, "j", "p", "e", "g">>
ExtPng  == <<Dot, "p", "n", "g">>
ExtBmp  == <<Dot, "b", "m", "p">>
ExtTif  == <<Dot, "t", "i", "f">>
ExtTiff == <<Dot, "t", "i", "f", "f">>
ExtWebp == <<Dot, "w", "e", "b", "p">>

SUPPORTED_EXTS == {ExtJpg, ExtJpeg, ExtPng, ExtBmp, ExtTif, ExtTiff, ExtWebp}

\* The unsorted list of list_images: rglob without a file test when
\* recursive, iterdir with is_file() otherwise.
ListImagesSet(f, input_dir, recursive) ==
    IF recursive
    THEN {p \in Rglob(f, input_dir) : Lower(Suffix(p)) \in SUPPORTED_EXTS}
    ELSE {p \in Iterdir(f, input_dir) :
              IsFile(f, p) /\ Lower(Suffix(p)) \in SUPPORTED_EXTS}

list_images(f, input_dir, recursive) ==
    Sorted(ListImagesSet(f, input_dir, recursive))

\* output_path_for without relative_to in the mirror branch.
OutputPathNotRelative(input_file, input_dir, output_dir, keep_structure) ==
    IF keep_structure
    THEN LET rel == WithSuffix(input_file, ExtPng)
         IN  WithSuffix(Join(output_dir, rel), ExtPng)
    ELSE Join(output_dir, <<Stem(input_file) \o ExtPng>>)

\* output_path_for with name in place of stem in the flatten branch.
OutputPathKeepsExtension(input_file, input_dir, output_dir, keep_structure) ==
    IF keep_structure
    THEN LET rel == WithSuffix(RelativeTo(input_file, input_dir), ExtPng)
         IN  WithSuffix(Join(output_dir, rel), ExtPng)
    ELSE Join(output_dir, <<Name(input_file) \o ExtPng>>)

output_path_for(input_file, input_dir, output_dir, keep_structure) ==
    IF keep_structure
    THEN LET rel == WithSuffix(RelativeTo(input_file, input_dir), ExtPng)
         IN  WithSuffix(Join(output_dir, rel), ExtPng)
    ELSE Join(output_dir, <<Stem(input_file) \o ExtPng>>)

\* args.max_size: None when --max-size is absent, else the int given.
NoMaxSize == [given |-> FALSE, px |-> 0]

MaxSize(d) == [given |-> TRUE, px |-> d]

\* Line 38: the truth value of max_size; None and 0 are false.
Truthy(max_size) == max_size.given /\ max_size.px # 0

Abs(n) == IF n < 0 THEN 0 - n ELSE n

Max(a, b) == IF a >= b THEN a ELSE b

Ceil(num, den) == IF num % den = 0 THEN num \div den ELSE (num \div den) + 1

\* Image.thumbnail((d, d)) with the early return left out: the image is
\* fitted into the box whatever its size.
ThumbnailAlwaysFits(size, d) ==
    LET w == size[1]
        h == size[2]
    IN  IF w <= h
        THEN <<Max((d * w) \div h, 1), d>>
        ELSE <<d, Max((d * h) \div w, 1)>>

\* Line 39: Image.thumbnail compares the two candidate lengths by keys that
\* are binary64 floats.  Where the exact keys differ the floats differ the
\* same way; where the exact keys are equal the rounding errors of the three
\* divisions decide, and the operators below compute them exactly.

RECURSIVE Exp2(_)
Exp2(n) == IF n = 0 THEN 1 ELSE 2 * Exp2(n - 1)

\* 2^k modulo m.
RECURSIVE PowMod(_, _)
PowMod(k, m) == IF k = 0 THEN 1 % m ELSE (2 * PowMod(k - 1, m)) % m

\* The k with 2^52 <= (p / q) * 2^k < 2^53, for p, q >= 1: the float nearest
\* to p / q is an integer multiple of 2^-k.
Shift(p, q) ==
    IF p >= q
    THEN 52 - (CHOOSE e \in 0..30 : q * Exp2(e) <= p /\ p < q * Exp2(e + 1))
    ELSE 52 + (CHOOSE j \in 1..30 : p * Exp2(j) >= q /\ p * Exp2(j - 1) < q)

\* The rounding error of the float division p / q, round to nearest, ties to
\* even: float(p / q) - p / q = num / (den * 2^k).
RoundErr(p, q) ==
    IF p = 0 THEN [num |-> 0, den |-> 1, k |-> 0]
    ELSE LET k   == Shift(p, q)
             r   == ((p % q) * PowMod(k, q)) % q
             odd == ((p % (2 * q)) * PowMod(k, 2 * q)) % (2 * q) >= q
             up  == 2 * r > q \/ (2 * r = q /\ odd)
         IN  [num |-> IF up THEN q - r ELSE 0 - r, den |-> q, k |-> k]

\* e's error times 2^K times m, an integer when e.den divides m.
Scaled(e, K, m) ==
    IF e.num = 0 THEN 0 ELSE e.num * Exp2(K - e.k) * (m \div e.den)

\* Twice the error of ea against the sum of the errors of e1 and e2: the
\* difference, brought to one denominator.
ErrBalance(ea, e1, e2) ==
    LET K == Max(ea.k, Max(e1.k, e2.k))   \* an exact quotient has k = 0
        m == ea.den * e1.den * e2.den
    IN  2 * Scaled(ea, K, m) - (Scaled(e1, K, m) + Scaled(e2, K, m))

\* Line 39: Image.thumbnail((d, d)) for d >= 1, the size it leaves the image
\* with.  An image that fits the box is left alone; otherwise the longer side
\* becomes d and the other side is floor or ceil of the proportional length,
\* whichever keeps the aspect ratio closer as min() over the float keys sees
\* it, and at least 1.  On an exact tie the keys are |A - Q1| and |A - Q2|
\* with A, Q1, Q2 the rounded quotients, and their subtractions are exact.
Thumbnail(size, d) ==
    LET w == size[1]
        h == size[2]
    IN  IF d >= w /\ d >= h THEN size
        ELSE IF w <= h
        THEN LET fl == (d * w) \div h
                 ce == Ceil(d * w, h)
                 kf == Abs(w * d - fl * h)
                 kc == Abs(w * d - ce * h)
                 x  == IF kf < kc THEN fl
                       ELSE IF kf > kc THEN ce
                       ELSE IF ErrBalance(RoundErr(w, h), RoundErr(fl, d),
                                          RoundErr(ce, d)) <= 0
                       THEN fl ELSE ce
             IN  <<Max(x, 1), d>>
        ELSE LET fl == (d * h) \div w
                 ce == Ceil(d * h, w)
                 kf == Abs(w * fl - d * h) * ce
                 kc == Abs(w * ce - d * h) * fl
                 y  == IF fl = 0 THEN fl
                       ELSE IF kf < kc THEN fl
                       ELSE IF kf > kc THEN ce
                       ELSE IF ErrBalance(RoundErr(w, h), RoundErr(d, fl),
                                          RoundErr(d, ce)) >= 0
                       THEN fl ELSE ce
             IN  <<d, Max(y, 1)>>

\* Lines 38-39: what the thumbnail step does to an image of this size: the
\* size it hands on, or the exception of Image.thumbnail, which rejects a
\* negative box.
ThumbnailError(max_size) ==
    IF Truthy(max_size) /\ max_size.px < 0 THEN "ValueError" ELSE "none"

Resized(size, max_size) ==
    IF Truthy(max_size) THEN Thumbnail(size, max_size.px) ELSE size

\* A pool of one worker whatever --jobs says.
MaxWorkersOne(jobs) == IF jobs > 1 THEN 1 ELSE 1

\* max(1, args.jobs): the pool's max_workers.
MaxWorkers(jobs) == IF jobs > 1 THEN jobs ELSE 1

----------------------------------------------------------------------------
(* main(): the main thread *)

Emit(line) == stdout' = Append(stdout, line)

\* Lines 71-72: parser.error() ends the process when input_dir is no directory.
CheckInput ==
    /\ pc = "check_input"
    /\ pc' = IF ~Exists(fs, args.input_dir) \/ ~IsDir(fs, args.input_dir)
             THEN "usage_error" ELSE "mkdir_out"
    /\ UNCHANGED <<fs, args, files, tasks, ok, fails, bar, stdout, listed, run, prev, fs0>>

\* Line 74: args.output_dir.mkdir(parents=True, exist_ok=True); what it raises
\* is caught nowhere.
MkdirOut ==
    /\ pc = "mkdir_out"
    /\ IF MkdirError(fs, args.output_dir) = "none"
       THEN fs' = Mkdir(fs, args.output_dir) /\ pc' = "new_session"
       ELSE fs' = fs /\ pc' = "crashed"
    /\ UNCHANGED <<args, files, tasks, ok, fails, bar, stdout, listed, run, prev, fs0>>

\* NewSession without the return of line 82.
NewSessionNoReturn ==
    /\ pc = "new_session"
    /\ \E raised \in BOOLEAN :
          IF raised
          THEN pc' = "list" /\ Emit([msg |-> "no_session"])
          ELSE pc' = "list" /\ stdout' = stdout
    /\ UNCHANGED <<fs, args, files, tasks, ok, fails, bar, listed, run, prev, fs0>>

\* Lines 77-82: new_session either returns the session or raises; main prints
\* and returns when it raises.
NewSession ==
    /\ pc = "new_session"
    /\ \E raised \in BOOLEAN :
          IF raised
          THEN pc' = "no_session" /\ Emit([msg |-> "no_session"])
          ELSE pc' = "list" /\ stdout' = stdout
    /\ UNCHANGED <<fs, args, files, tasks, ok, fails, bar, listed, run, prev, fs0>>

\* Lines 84-89.
Discover ==
    /\ pc = "list"
    /\ files' = list_images(fs, args.input_dir, args.recursive)
    /\ listed' = TRUE
    /\ IF files' = <<>>
       THEN pc' = "no_images" /\ Emit([msg |-> "no_images"])
       ELSE pc' = "submit" /\ Emit([msg |-> "found", n |-> Len(files')])
    /\ UNCHANGED <<fs, args, tasks, ok, fails, bar, run, prev, fs0>>

\* The future ex.submit returns: queued, no result yet.  'mk', 'seen',
\* 'created' and 'unlinked' are the locals of a call of process_one under
\* way: the calls of Path.mkdir on the stack, the file Image.open read the
\* header of, Image.save's 'created', and whether the file save holds open
\* has lost its name.
NewTask(input_file, output_file) ==
    [src |-> input_file, out |-> output_file, st |-> "queued",
     success |-> FALSE, err |-> "none", skipped |-> FALSE, calls |-> 0,
     collected |-> FALSE, size |-> <<0, 0>>,
     mk |-> <<>>, seen |-> NoEntry, created |-> FALSE, unlinked |-> FALSE]

\* Lines 93-95: one iteration of the submission loop.
Submit ==
    /\ pc = "submit"
    /\ LET f   == files[Len(tasks) + 1]
           out == output_path_for(f, args.input_dir, args.output_dir,
                                  args.keep_structure)
       IN  tasks' = Append(tasks, NewTask(f, out))
    /\ pc' = IF Len(tasks') = Len(files) THEN "collect" ELSE "submit"
    /\ UNCHANGED <<fs, args, files, ok, fails, bar, stdout, listed, run, prev, fs0>>

\* Collect over the futures in the order of the list: 'for fut in tasks'.
CollectInSubmissionOrder(i) ==
    /\ pc = "collect"
    /\ tasks[i].st = "finished"
    /\ ~tasks[i].collected
    /\ \A j \in 1..(i - 1) : tasks[j].collected
    /\ tasks' = [tasks EXCEPT ![i].collected = TRUE]
    /\ IF tasks[i].success
       THEN ok' = ok + 1 /\ fails' = fails /\ stdout' = stdout
       ELSE /\ ok' = ok
            /\ fails' = fails + 1
            /\ Emit([msg |-> "error", path |-> tasks[i].src, err |-> tasks[i].err])
    /\ bar' = bar + 1
    /\ UNCHANGED <<fs, args, pc, files, listed, run, prev, fs0>>

\* Collect with the failure branch leaving 'fails' alone.
CollectLosesFailure(i) ==
    /\ pc = "collect"
    /\ tasks[i].st = "finished"
    /\ ~tasks[i].collected
    /\ tasks' = [tasks EXCEPT ![i].collected = TRUE]
    /\ ok' = IF tasks[i].success THEN ok + 1 ELSE ok
    /\ bar' = bar + 1
    /\ UNCHANGED <<fs, args, pc, files, fails, stdout, listed, run, prev, fs0>>

\* Collect with fut.result() raising what a failed item raised.
CollectRaises(i) ==
    /\ pc = "collect"
    /\ tasks[i].st = "finished"
    /\ ~tasks[i].collected
    /\ tasks' = [tasks EXCEPT ![i].collected = TRUE]
    /\ IF tasks[i].success
       THEN ok' = ok + 1 /\ bar' = bar + 1 /\ pc' = pc
       ELSE ok' = ok /\ bar' = bar /\ pc' = "crashed"
    /\ UNCHANGED <<fs, args, files, fails, stdout, listed, run, prev, fs0>>

\* Lines 100-107: as_completed hands over a finished future that it has not
\* handed over yet; main counts it, reports a failure and ticks the bar.
Collect(i) ==
    /\ pc = "collect"
    /\ tasks[i].st = "finished"
    /\ ~tasks[i].collected
    /\ tasks' = [tasks EXCEPT ![i].collected = TRUE]
    /\ IF tasks[i].success
       THEN ok' = ok + 1 /\ fails' = fails /\ stdout' = stdout
       ELSE /\ ok' = ok
            /\ fails' = fails + 1
            /\ Emit([msg |-> "error", path |-> tasks[i].src, err |-> tasks[i].err])
    /\ bar' = bar + 1
    /\ UNCHANGED <<fs, args, pc, files, listed, run, prev, fs0>>

\* Summary with the loop over as_completed left at the first failure.
SummaryOnFailure ==
    /\ pc = "collect"
    /\ \/ \A i \in 1..Len(tasks) : tasks[i].collected
       \/ \E i \in 1..Len(tasks) : tasks[i].collected /\ ~tasks[i].success
    /\ Emit([msg |-> "summary", ok |-> ok, fails |-> fails, out |-> args.output_dir])
    /\ pc' = "done"
    /\ UNCHANGED <<fs, args, files, tasks, ok, fails, bar, listed, run, prev, fs0>>

\* Line 109: as_completed is exhausted, the pool has shut down.
Summary ==
    /\ pc = "collect"
    /\ \A i \in 1..Len(tasks) : tasks[i].collected
    /\ Emit([msg |-> "summary", ok |-> ok, fails |-> fails, out |-> args.output_dir])
    /\ pc' = "done"
    /\ UNCHANGED <<fs, args, files, tasks, ok, fails, bar, listed, run, prev, fs0>>

----------------------------------------------------------------------------
(* process_one(): the pool's worker threads *)

\* The positions of a call that holds a worker; "hung" is a backend call
\* that never returns.
RunningStates ==
    {"check", "mkdir", "open", "load", "remove", "save", "save_open",
     "save_write", "hung"}

Running == {i \in 1..Len(tasks) : tasks[i].st \in RunningStates}

\* process_one has returned: its locals are gone.
Return(t) ==
    [t EXCEPT !.st = "finished", !.mk = <<>>, !.seen = NoEntry,
              !.created = FALSE, !.unlinked = FALSE]

\* process_one returns (input_file, True, None).
Succeed(t, skip) == [Return(t) EXCEPT !.success = TRUE, !.skipped = skip]

\* process_one's except clause: (input_file, False, str(e)).
Fail(t, e) == [Return(t) EXCEPT !.success = FALSE, !.err = e]

\* Start with a pool that starts a thread for every call submitted.
StartUnbounded(i) ==
    /\ tasks[i].st = "queued"
    /\ \A j \in 1..(i - 1) : tasks[j].st # "queued"
    /\ tasks' = [tasks EXCEPT ![i].st = "check"]
    /\ UNCHANGED <<fs, args, pc, files, ok, fails, bar, stdout, listed, run, prev, fs0>>

\* A worker of the pool takes the oldest queued call; the pool has
\* max(1, jobs) workers.
Start(i) ==
    /\ tasks[i].st = "queued"
    /\ \A j \in 1..(i - 1) : tasks[j].st # "queued"
    /\ Cardinality(Running) < MaxWorkers(args.jobs)
    /\ tasks' = [tasks EXCEPT ![i].st = "check"]
    /\ UNCHANGED <<fs, args, pc, files, ok, fails, bar, stdout, listed, run, prev, fs0>>

\* The skip test with 'force' the wrong way round.
ShouldSkipInverted(f, output_file, force) == Exists(f, output_file) /\ force

\* Lines 32-33: the skip test.
ShouldSkip(f, output_file, force) == Exists(f, output_file) /\ ~force

\* One call of Path.mkdir(parents, exist_ok=True) on the stack: 'e' is
\* "none" before its os.mkdir, afterwards the OSError whose handler is about
\* to ask is_dir().
MkFrame(p, parents) == [p |-> p, parents |-> parents, e |-> "none"]

\* Lines 32-35: the skip test, and the call of output_file.parent.mkdir.
CheckExists(i) ==
    /\ tasks[i].st = "check"
    /\ tasks' = [tasks EXCEPT ![i] =
                    IF ShouldSkip(fs, tasks[i].out, args.force)
                    THEN Succeed(@, TRUE)
                    ELSE [@ EXCEPT !.st = "mkdir",
                                   !.mk = <<MkFrame(Parent(tasks[i].out), TRUE)>>]]
    /\ UNCHANGED <<fs, args, pc, files, ok, fails, bar, stdout, listed, run, prev, fs0>>

\* The innermost call of Path.mkdir returns: the call below it goes on, or
\* line 35 is done.
MkdirReturn(t) ==
    LET rest == SubSeq(t.mk, 1, Len(t.mk) - 1)
    IN  IF rest = <<>> THEN [t EXCEPT !.st = "open", !.mk = <<>>]
        ELSE [t EXCEPT !.mk = rest]

\* Line 35, one system call of Path.mkdir(parents=True, exist_ok=True):
\*   try: os.mkdir(self)
\*   except FileNotFoundError:
\*       if not parents or self.parent == self: raise
\*       self.parent.mkdir(parents=True, exist_ok=True)
\*       self.mkdir(parents=False, exist_ok=exist_ok)
\*   except OSError:
\*       if not exist_ok or not self.is_dir(): raise
\* Other threads run between the os.mkdir of one level and the next, and
\* between an os.mkdir that fails and the is_dir() of its handler.
MkdirParent(i) ==
    /\ tasks[i].st = "mkdir"
    /\ LET t   == tasks[i]
           n   == Len(t.mk)
           top == t.mk[n]
           e   == OsMkdirError(fs, top.p)
       IN  IF top.e # "none"
           THEN /\ fs' = fs
                /\ tasks' = [tasks EXCEPT ![i] =
                                IF IsDir(fs, top.p) THEN MkdirReturn(t)
                                ELSE Fail(t, top.e)]
           ELSE IF e = "none"
           THEN /\ fs' = [q \in {top.p} |-> DirEntry] @@ fs
                /\ tasks' = [tasks EXCEPT ![i] = MkdirReturn(t)]
           ELSE IF e = "FileNotFoundError"
           THEN /\ fs' = fs
                /\ tasks' = [tasks EXCEPT ![i] =
                                IF top.parents /\ top.p # <<>>
                                THEN [t EXCEPT !.mk =
                                         SubSeq(t.mk, 1, n - 1)
                                         \o <<MkFrame(top.p, FALSE),
                                              MkFrame(Parent(top.p), TRUE)>>]
                                ELSE Fail(t, e)]
           ELSE /\ fs' = fs
                /\ tasks' = [tasks EXCEPT ![i].mk[n].e = e]
    /\ UNCHANGED <<args, pc, files, ok, fails, bar, stdout, listed, run, prev, fs0>>

\* OpenImage with the except clause reporting success.
OpenImageFailureAsSuccess(i) ==
    /\ tasks[i].st = "open"
    /\ LET e == OpenError(fs, tasks[i].src)
       IN  tasks' = [tasks EXCEPT ![i] =
                        IF e = "none"
                        THEN [@ EXCEPT !.st = "load", !.seen = fs[tasks[i].src]]
                        ELSE [Return(@) EXCEPT !.success = TRUE]]
    /\ UNCHANGED <<fs, args, pc, files, ok, fails, bar, stdout, listed, run, prev, fs0>>

\* Line 37: Image.open opens the source and reads its header; the pixels
\* are read later.
OpenImage(i) ==
    /\ tasks[i].st = "open"
    /\ LET e == OpenError(fs, tasks[i].src)
       IN  tasks' = [tasks EXCEPT ![i] =
                        IF e = "none"
                        THEN [@ EXCEPT !.st = "load", !.seen = fs[tasks[i].src]]
                        ELSE Fail(@, e)]
    /\ UNCHANGED <<fs, args, pc, files, ok, fails, bar, stdout, listed, run, prev, fs0>>

\* What path p holds now.
EntryAt(f, p) == IF p \in DOMAIN f THEN f[p] ELSE NoEntry

\* Lines 38-42: thumbnail (when max_size is true) or convert reads the
\* pixels through the file Image.open left open.  When the path has been
\* truncated, rewritten or removed since line 37, the read finds the old
\* bytes, the new ones or too few of them: it raises or it does not.  The
\* image handed on has the size of the header read at line 37, scaled by
\* thumbnail.
LoadImage(i) ==
    /\ tasks[i].st = "load"
    /\ LET t == tasks[i]
       IN  \E broken \in {FALSE, EntryAt(fs, t.src) # t.seen} :
              tasks' = [tasks EXCEPT ![i] =
                           IF broken THEN Fail(t, "OSError")
                           ELSE IF ThumbnailError(args.max_size) # "none"
                           THEN Fail(t, ThumbnailError(args.max_size))
                           ELSE [t EXCEPT !.st = "remove", !.seen = NoEntry,
                                          !.size = Resized(t.seen.size,
                                                           args.max_size)]]
    /\ UNCHANGED <<fs, args, pc, files, ok, fails, bar, stdout, listed, run, prev, fs0>>

\* Remove with one retry of a backend call that raised.
RemoveRetriesOnce(i) ==
    /\ tasks[i].st = "remove"
    /\ \E raised \in BOOLEAN :
          tasks' = [tasks EXCEPT ![i] =
                       IF raised /\ @.calls = 0
                       THEN [@ EXCEPT !.calls = @ + 1]
                       ELSE IF raised
                       THEN Fail([@ EXCEPT !.calls = @ + 1], "TransformError")
                       ELSE [@ EXCEPT !.st = "save", !.calls = @ + 1]]
    /\ UNCHANGED <<fs, args, pc, files, ok, fails, bar, stdout, listed, run, prev, fs0>>

\* Lines 44-48: the backend is called; it returns an image or raises.
Remove(i) ==
    /\ tasks[i].st = "remove"
    /\ \E raised \in BOOLEAN :
          tasks' = [tasks EXCEPT ![i] =
                       IF raised
                       THEN Fail([@ EXCEPT !.calls = @ + 1], "TransformError")
                       ELSE [@ EXCEPT !.st = "save", !.calls = @ + 1]]
    /\ UNCHANGED <<fs, args, pc, files, ok, fails, bar, stdout, listed, run, prev, fs0>>

\* Line 50, Image.save, its first statement:
\*   created = not os.path.exists(filename)
SaveExists(i) ==
    /\ tasks[i].st = "save"
    /\ tasks' = [tasks EXCEPT ![i] =
                    [@ EXCEPT !.st = "save_open",
                              !.created = ~Exists(fs, tasks[i].out)]]
    /\ UNCHANGED <<fs, args, pc, files, ok, fails, bar, stdout, listed, run, prev, fs0>>

\* The file save has opened and not yet filled: it decodes as nothing.
Partial(t) == ImageEntry(FALSE, t.src, t.size)

\* SaveOpen with the file opened where the source is.
SaveOverSource(i) ==
    /\ tasks[i].st = "save_open"
    /\ fs' = WriteFile(fs, tasks[i].src, Partial(tasks[i]))
    /\ tasks' = [tasks EXCEPT ![i].st = "save_write"]
    /\ UNCHANGED <<args, pc, files, ok, fails, bar, stdout, listed, run, prev, fs0>>

\* Line 50, Image.save, fp = builtins.open(filename, "w+b"): the destination
\* is created empty or, when it exists, truncated.  An exception here is
\* raised before save's try block: nothing is removed.
SaveOpen(i) ==
    /\ tasks[i].st = "save_open"
    /\ LET out == tasks[i].out
           e   == SaveError(fs, out)
       IN  IF e # "none"
           THEN /\ fs' = fs
                /\ tasks' = [tasks EXCEPT ![i] = Fail(@, e)]
           ELSE /\ fs' = WriteFile(fs, out, Partial(tasks[i]))
                /\ tasks' = [tasks EXCEPT ![i].st = "save_write"]
    /\ UNCHANGED <<args, pc, files, ok, fails, bar, stdout, listed, run, prev, fs0>>

\* The calls of save that hold the file now named p open, other than call i.
OpenOn(p, i) ==
    {j \in 1..Len(tasks) \ {i} :
        /\ tasks[j].st = "save_write"
        /\ tasks[j].out = p
        /\ ~tasks[j].unlinked}

\* Line 50, Image.save, the rest:
\*   try: save_handler(self, fp, filename)
\*   except Exception:
\*       fp.close()
\*       if created: os.remove(filename)
\*       raise
\* The encoder writes the file.  When no other call has opened or written
\* the same file meanwhile, the file is the image; otherwise the bytes of
\* two calls share the file, which is this call's image or neither.  A
\* file that has lost its name is written where no path leads.  When the
\* encoder fails (disk full, an I/O error) and save had found no file at
\* the path, the path is removed, whichever call's file it names by now;
\* when os.remove raises (the path is gone, or a directory by now), that
\* exception is the one process_one catches.
SaveWrite(i) ==
    /\ tasks[i].st = "save_write"
    /\ LET t     == tasks[i]
           out   == t.out
           alone == /\ EntryAt(fs, out) = Partial(t)
                    /\ OpenOn(out, i) = {}
       IN  \E raised \in BOOLEAN, whole \in {TRUE, alone} :
              IF ~raised
              THEN /\ fs' = IF t.unlinked THEN fs
                            ELSE WriteFile(fs, out, ImageEntry(whole, t.src, t.size))
                   /\ tasks' = [tasks EXCEPT ![i] = Succeed(t, FALSE)]
              ELSE IF ~t.created
              THEN /\ fs' = fs
                   /\ tasks' = [tasks EXCEPT ![i] = Fail(t, "OSError")]
              ELSE IF RemoveError(fs, out) = "none"
              THEN /\ fs' = RemoveFile(fs, out)
                   /\ tasks' = [j \in 1..Len(tasks) |->
                                   IF j = i THEN Fail(t, "OSError")
                                   ELSE IF j \in OpenOn(out, i)
                                   THEN [tasks[j] EXCEPT !.unlinked = TRUE]
                                   ELSE tasks[j]]
              ELSE /\ fs' = fs
                   /\ tasks' = [tasks EXCEPT ![i] = Fail(t, RemoveError(fs, out))]
    /\ UNCHANGED <<args, pc, files, ok, fails, bar, stdout, listed, run, prev, fs0>>

\* A step of lines 32-50 raises for a reason outside the model (permissions,
\* an I/O error, memory) before it has changed anything: the except clause
\* turns it into the result.
Raise(i) ==
    /\ tasks[i].st \in {"check", "mkdir", "open", "load", "save", "save_open"}
    /\ tasks' = [tasks EXCEPT ![i] = Fail(@, "OSError")]
    /\ UNCHANGED <<fs, args, pc, files, ok, fails, bar, stdout, listed, run, prev, fs0>>

\* Line 44: a backend call that never returns; the worker stays taken.
Hang(i) ==
    /\ tasks[i].st = "remove"
    /\ tasks' = [tasks EXCEPT ![i] = [@ EXCEPT !.st = "hung", !.calls = @ + 1]]
    /\ UNCHANGED <<fs, args, pc, files, ok, fails, bar, stdout, listed, run, prev, fs0>>

\* The batch is run again with the same command line.
Rerun ==
    /\ pc = "done"
    /\ run = "first"
    /\ run' = "second"
    /\ prev' = fs
    /\ pc' = "check_input"
    /\ files' = <<>>
    /\ tasks' = <<>>
    /\ ok' = 0
    /\ fails' = 0
    /\ bar' = 0
    /\ stdout' = <<>>
    /\ listed' = FALSE
    /\ UNCHANGED <<fs, args, fs0>>

----------------------------------------------------------------------------
(* The inputs the model draws from *)

N_in       == <<"i", "n">>
N_out      == <<"o", "u", "t">>
N_sub      == <<"s", "u", "b">>
N_a_jpg    == <<"a", Dot, "j", "p", "g">>
N_a_png    == <<"a", Dot, "p", "n", "g">>
N_a_JPG    == <<"a", Dot, "J", "P", "G">>
N_b_tiff   == <<"b", Dot, "t", "i", "f", "f">>
N_b_png    == <<"b", Dot, "p", "n", "g">>
N_d_png    == <<"d", Dot, "p", "n", "g">>
N_d_jpg    == <<"d", Dot, "j", "p", "g">>
N_d_bmp    == <<"d", Dot, "b", "m", "p">>
N_n_txt    == <<"n", Dot, "t", "x", "t">>
N_dotjpg   == <<Dot, "j", "p", "g">>
N_a_b_webp == <<"a", Dot, "b", Dot, "w", "e", "b", "p">>
N_a_dot    == <<"a", Dot>>
N_a_bmp_   == <<"a", Dot, "b", "m", "p", Dot>>
N_a_PnG    == <<"a", "-", "b", Dot, "P", "n", "G">>
N_c_TIFF   == <<"c", Dot, "T", "I", "F", "F">>
N_C_Webp   == <<"C", Dot, "W", "e", "b", "P">>

Source  == FileEntry(TRUE, <<>>)
Corrupt == FileEntry(FALSE, <<>>)

\* What may lie below input_dir in a run of the batch: path relative to
\* input_dir, and what is there.
RunEntries ==
    { [rel |-> <<N_a_jpg>>, e |-> Source],
      [rel |-> <<N_a_jpg>>, e |-> Corrupt],
      [rel |-> <<N_a_png>>, e |-> Source],
      [rel |-> <<N_b_tiff>>, e |-> Source],
      [rel |-> <<N_a_b_webp>>, e |-> Source],
      [rel |-> <<N_sub>>, e |-> DirEntry],
      [rel |-> <<N_sub, N_a_JPG>>, e |-> Source],
      [rel |-> <<N_d_png>>, e |-> DirEntry],
      [rel |-> <<N_n_txt>>, e |-> Source] }

\* A wider choice of names for the path functions.
PathEntries ==
    RunEntries \cup
    { [rel |-> <<N_dotjpg>>, e |-> Source],
      [rel |-> <<N_a_dot>>, e |-> Source],
      [rel |-> <<N_a_bmp_>>, e |-> Source],
      [rel |-> <<N_a_PnG>>, e |-> Source],
      [rel |-> <<N_c_TIFF>>, e |-> Source],
      [rel |-> <<N_C_Webp>>, e |-> Source],
      [rel |-> <<N_sub, N_b_tiff>>, e |-> Source],
      [rel |-> <<N_d_png, N_a_jpg>>, e |-> Source],
      [rel |-> <<N_sub, N_sub>>, e |-> DirEntry],
      [rel |-> <<N_sub, N_sub, N_a_png>>, e |-> Source] }

\* What may lie below output_dir before the run: nothing, a file or a
\* directory where a destination will be, a file where a destination's
\* directory will be, or the output of an earlier run.
PreTrees ==
    { {},
      {[rel |-> <<N_a_png>>, e |-> Source]},
      {[rel |-> <<N_a_png>>, e |-> DirEntry]},
      {[rel |-> <<N_b_png>>, e |-> Corrupt]},
      {[rel |-> <<N_sub>>, e |-> Source]},
      {[rel |-> <<N_sub>>, e |-> DirEntry],
       [rel |-> <<N_sub, N_a_png>>, e |-> Source]} }

\* The sets of at most n entries that form a tree: one entry per path, every
\* entry's parent a directory of the set.
Trees(U, n) ==
    { S \in SUBSET U :
        /\ Cardinality(S) <= n
        /\ \A x, y \in S : x.rel = y.rel => x = y
        /\ \A x \in S : Len(x.rel) > 1 =>
              \E y \in S : y.rel = Parent(x.rel) /\ y.e.kind = "dir" }

\* The filesystem that holds tree S below directory root.
Plant(root, S) ==
    [p \in Prefixes(root) \cup {Join(root, x.rel) : x \in S} |->
        IF p \in Prefixes(root) THEN DirEntry
        ELSE (CHOOSE x \in S : Join(root, x.rel) = p).e]

Jobs == {0, 2}

InputDirs == {<<N_in>>}

OutputDirs == {<<N_out>>}

\* The state of main() at line 69, on filesystem f with command line a;
\* h is what the history fs0 keeps.
BeginWith(f, a, h) ==
    /\ fs = f
    /\ args = a
    /\ pc = "check_input"
    /\ files = <<>>
    /\ tasks = <<>>
    /\ ok = 0
    /\ fails = 0
    /\ bar = 0
    /\ stdout = <<>>
    /\ listed = FALSE
    /\ run = "first"
    /\ prev = <<>>
    /\ fs0 = h

Begin(f, a) == BeginWith(f, a, <<>>)

CommandLines(forces) ==
    [input_dir : InputDirs, output_dir : OutputDirs, recursive : BOOLEAN,
     keep_structure : BOOLEAN, force : forces, jobs : Jobs,
     max_size : {NoMaxSize}]

\* The filesystems a run may start on: input_dir a directory holding a tree,
\* a file, or missing; output_dir a directory holding a tree, a file, or missing.
Filesystems(a, entries, n) ==
    LET ins  == {Plant(a.input_dir, S) : S \in Trees(entries, n)}
                  \cup {[p \in {a.input_dir} |-> Source], <<>>}
        outs == {Plant(a.output_dir, S) : S \in PreTrees}
                  \cup {[p \in {a.output_dir} |-> Source], <<>>}
    IN  {i @@ o : i \in ins, o \in outs}

Init ==
    \E a \in CommandLines(BOOLEAN) :
        \E f \in Filesystems(a, RunEntries, MaxEntries) : Begin(f, a)

Next ==
    \/ CheckInput
    \/ MkdirOut
    \/ NewSession
    \/ Discover
    \/ Submit
    \/ \E i \in 1..Len(tasks) : Collect(i)
    \/ Summary
    \/ \E i \in 1..Len(tasks) : Start(i)
    \/ \E i \in 1..Len(tasks) : CheckExists(i)
    \/ \E i \in 1..Len(tasks) : MkdirParent(i)
    \/ \E i \in 1..Len(tasks) : OpenImage(i)
    \/ \E i \in 1..Len(tasks) : LoadImage(i)
    \/ \E i \in 1..Len(tasks) : Remove(i)
    \/ \E i \in 1..Len(tasks) : SaveExists(i)
    \/ \E i \in 1..Len(tasks) : SaveOpen(i)
    \/ \E i \in 1..Len(tasks) : SaveWrite(i)
    \/ \E i \in 1..Len(tasks) : Raise(i)

Spec == Init /\ [][Next]_vars

\* The runs of Spec with the filesystem of the start kept in fs0.
InitIsolation ==
    \E a \in CommandLines(BOOLEAN) :
        \E f \in Filesystems(a, RunEntries, MaxEntries) : BeginWith(f, a, f)

SpecIsolation == InitIsolation /\ [][Next]_vars

\* Two runs in a row with force unset.
InitTwice ==
    \E a \in CommandLines({FALSE}) :
        \E f \in Filesystems(a, RunEntries, MaxEntries) : Begin(f, a)

NextTwice ==
    \/ Next
    \/ Rerun

SpecTwice == InitTwice /\ [][NextTwice]_vars

\* One run over a single image of any size up to MaxDim x MaxDim, with
\* --max-size absent or any value from -1 to MaxDim: line 67 takes any int.
Sizes == (1..MaxDim) \X (1..MaxDim)

MaxSizes == {NoMaxSize} \cup {MaxSize(d) : d \in -1..MaxDim}

InitResize ==
    \E a \in CommandLines({FALSE}), size \in Sizes, m \in MaxSizes :
        /\ ~a.recursive /\ ~a.keep_structure /\ a.jobs = 2
        /\ Begin(Plant(a.input_dir,
                       {[rel |-> <<N_a_jpg>>, e |-> ImageEntry(TRUE, <<>>, size)]}),
                 [a EXCEPT !.max_size = m])

SpecResize == InitResize /\ [][Next]_vars

\* The pool at work: up to MaxEntries + 1 files directly below input_dir,
\* flatten mode, output_dir missing, --jobs negative, zero or positive, and
\* backend calls that may never return.
PoolEntries ==
    { [rel |-> <<N_a_jpg>>, e |-> Source],
      [rel |-> <<N_a_jpg>>, e |-> Corrupt],
      [rel |-> <<N_a_png>>, e |-> Source],
      [rel |-> <<N_b_tiff>>, e |-> Source],
      [rel |-> <<N_a_b_webp>>, e |-> Source] }

PoolJobs == {-1, 0, 2, 3}

InitPool ==
    \E a \in CommandLines({FALSE}), j \in PoolJobs :
        \E S \in Trees(PoolEntries, MaxEntries + 1) :
            /\ ~a.recursive /\ ~a.keep_structure /\ a.jobs = 0
            /\ Begin(Plant(a.input_dir, S), [a EXCEPT !.jobs = j])

NextPool ==
    \/ Next
    \/ \E i \in 1..Len(tasks) : Hang(i)

SpecPool == InitPool /\ [][NextPool]_vars

\* Runs whose destinations depend on one another: a directory with an image
\* extension and a file below it, a source where another item's destination
\* is, output_dir outside input_dir, equal to it or below it.
SchedEntries ==
    { [rel |-> <<N_a_jpg>>, e |-> Source],
      [rel |-> <<N_a_png>>, e |-> Source],
      [rel |-> <<N_a_png>>, e |-> Corrupt],
      [rel |-> <<N_sub>>, e |-> DirEntry],
      [rel |-> <<N_sub, N_a_png>>, e |-> Corrupt],
      [rel |-> <<N_d_png>>, e |-> DirEntry],
      [rel |-> <<N_d_png, N_a_jpg>>, e |-> Source] }

SchedOutputDirs == {<<N_out>>, <<N_in>>, <<N_in, N_sub>>}

\* A source two directories down, the upper one named like the destination
\* of a file beside it: in mirror mode its destination lacks two levels
\* below output_dir, and the lower one can only be made once the upper is.
DeepTree ==
    { [rel |-> <<N_d_jpg>>, e |-> Source],
      [rel |-> <<N_d_png>>, e |-> DirEntry],
      [rel |-> <<N_d_png, N_sub>>, e |-> DirEntry],
      [rel |-> <<N_d_png, N_sub, N_a_jpg>>, e |-> Source] }

\* Two sources with one destination, and a source below a directory named
\* like that destination: in mirror mode the path one save removes can be
\* made a directory before the other save removes it.
SharedTree ==
    { [rel |-> <<N_d_bmp>>, e |-> Source],
      [rel |-> <<N_d_jpg>>, e |-> Source],
      [rel |-> <<N_d_png>>, e |-> DirEntry],
      [rel |-> <<N_d_png, N_a_jpg>>, e |-> Source] }

InitSched ==
    \E a \in CommandLines(BOOLEAN), o \in SchedOutputDirs :
        \E S \in Trees(SchedEntries, MaxEntries) \cup {DeepTree, SharedTree} :
            BeginWith(Plant(a.input_dir, S), [a EXCEPT !.output_dir = o],
                      Plant(a.input_dir, S))

SpecSched == InitSched /\ [][Next]_vars

----------------------------------------------------------------------------
(* Properties of a run of the batch *)

Range(q) == {q[i] : i \in 1..Len(q)}

TaskIds == 1..Len(tasks)

Count(P(_)) == Cardinality({i \in TaskIds : P(i)})

Succeeded(i) == tasks[i].st = "finished" /\ tasks[i].success

Failed(i) == tasks[i].st = "finished" /\ ~tasks[i].success

Collected(i) == tasks[i].collected

\* No two submitted items share a destination.
DistinctDestinations ==
    \A i, j \in TaskIds : i # j => tasks[i].out # tasks[j].out

\* C1: when the batch has finished, every discovered file has exactly one
\* task, that task has one outcome which was counted once, and
\* ok + fails is the number of discovered files; while the batch runs,
\* ok + fails is the number of outcomes counted so far.
C1_OneOutcomePerFile ==
    /\ ok = Count(LAMBDA i : Collected(i) /\ tasks[i].success)
    /\ fails = Count(LAMBDA i : Collected(i) /\ ~tasks[i].success)
    /\ pc = "done" =>
          /\ \A p \in Range(files) :
                Cardinality({i \in TaskIds : tasks[i].src = p}) = 1
          /\ \A i \in TaskIds :
                tasks[i].src \in Range(files) /\ tasks[i].st = "finished"
                  /\ Collected(i)
          /\ ok + fails = Len(files)
          /\ ok + fails = Cardinality(ListImagesSet(fs, args.input_dir, args.recursive))

C1_Witness ==
    /\ pc = "done"
    /\ Len(files) = 2
    /\ args.jobs = 2
    /\ ok >= 1
    /\ fails >= 1

\* C4: an item is skipped exactly when its destination is a file and force
\* is unset; a skipped item is a success for which the backend is not called
\* and whose destination is left as it was; any other item that succeeds has
\* been transformed once and its destination written.
C4_SkipDecision ==
    \A i \in TaskIds :
        tasks[i].st = "finished" =>
            /\ tasks[i].skipped =>
                  /\ IsFile(fs, tasks[i].out)
                  /\ ~args.force
                  /\ tasks[i].success
                  /\ tasks[i].calls = 0
            /\ (tasks[i].success /\ ~tasks[i].skipped) =>
                  /\ tasks[i].calls = 1
                  /\ IsFile(fs, tasks[i].out)

\* new_session has raised: main has printed so.
SessionFailed == \E k \in 1..Len(stdout) : stdout[k].msg = "no_session"

\* C7: once input_dir is found invalid or new_session has raised, the run
\* lists no directory, submits no item, calls the backend for none and
\* writes no file.
C7_ConfigErrorsBeforeWork ==
    (pc = "usage_error" \/ SessionFailed) =>
        /\ pc \in {"usage_error", "no_session"}
        /\ ~listed
        /\ files = <<>>
        /\ tasks = <<>>
        /\ ok = 0 /\ fails = 0 /\ bar = 0
        /\ \A p \in DOMAIN fs : fs[p].from = <<>>

C7_Witness ==
    /\ pc = "no_session"
    /\ ListImagesSet(fs, args.input_dir, args.recursive) # {}

----------------------------------------------------------------------------
(* Discovery and path derivation on their own *)

\* main() at line 84, on a wider choice of trees, with no worker running:
\* line 74 has made output_dir.
InitPaths ==
    \E a \in CommandLines({FALSE}) :
        \E S \in Trees(PathEntries, MaxEntries + 1) :
            /\ a.jobs = 0
            /\ fs = Mkdir(Plant(a.input_dir, S), a.output_dir)
            /\ args = a
            /\ pc = "list"
            /\ files = <<>>
            /\ tasks = <<>>
            /\ ok = 0
            /\ fails = 0
            /\ bar = 0
            /\ stdout = <<>>
            /\ listed = FALSE
            /\ run = "first"
            /\ prev = <<>>
            /\ fs0 = <<>>

NextPaths ==
    \/ Discover
    \/ Submit

SpecPaths == InitPaths /\ [][NextPaths]_vars

\* The name ends with a dot and one of the seven extensions, in any case,
\* and has something before that dot.
EndsWith(name, ext) ==
    Len(name) > Len(ext) /\ SubSeq(name, Len(name) - Len(ext) + 1, Len(name)) = ext

HasSupportedExtension(p) ==
    \E ext \in SUPPORTED_EXTS : EndsWith(Lower(Name(p)), ext)

\* C5: in mirror mode no two discovered files get the same destination.
C5_MirrorInjective ==
    args.keep_structure => DistinctDestinations

\* C6: discovery returns exactly the regular files below input_dir (direct
\* children, or all descendants when recursive) with a supported extension,
\* never a directory, in ascending order.
C6_Discovery ==
    listed =>
        /\ Range(files) =
              {p \in DOMAIN fs :
                  /\ IsPrefix(args.input_dir, p)
                  /\ IF args.recursive THEN Len(p) > Len(args.input_dir)
                     ELSE Len(p) = Len(args.input_dir) + 1
                  /\ IsFile(fs, p)
                  /\ HasSupportedExtension(p)}
        /\ \A i, j \in 1..Len(files) : i < j => PathLess(files[i], files[j])

\* The name of destination 'out' is the name of source 'src' with the
\* source's last extension replaced by .png.
SameStemPng(src, out) ==
    LET n == Name(out)
    IN  /\ EndsWith(n, ExtPng)
        /\ SubSeq(n, 1, Len(n) - Len(ExtPng)) \o Suffix(src) = Name(src)

\* C9: in mirror mode the destination is output_dir, then the directories
\* of the source relative to input_dir, then the source's name with its last
\* extension replaced by .png.
C9_MirrorPath ==
    args.keep_structure =>
        \A i \in TaskIds :
            LET src == tasks[i].src
                out == tasks[i].out
                n   == Len(args.output_dir)
                m   == Len(args.input_dir)
            IN  /\ Len(out) - n = Len(src) - m
                /\ SubSeq(out, 1, n) = args.output_dir
                /\ \A k \in 1..(Len(src) - m - 1) : out[n + k] = src[m + k]
                /\ SameStemPng(src, out)

C9_Witness ==
    /\ args.keep_structure
    /\ \E i \in TaskIds :
          /\ tasks[i].src = <<N_in, N_sub, N_sub, N_a_png>>
          /\ tasks[i].out = <<N_out, N_sub, N_sub, N_a_png>>

\* C10: in flatten mode the destination lies directly in output_dir and is
\* named by the source's stem and .png, whatever the source's directory.
C10_FlattenPath ==
    ~args.keep_structure =>
        \A i \in TaskIds :
            /\ Parent(tasks[i].out) = args.output_dir
            /\ SameStemPng(tasks[i].src, tasks[i].out)
            /\ \A j \in TaskIds :
                  Name(tasks[j].src) = Name(tasks[i].src) => tasks[j].out = tasks[i].out

C10_Witness ==
    /\ ~args.keep_structure
    /\ \E i \in TaskIds :
          /\ tasks[i].src = <<N_in, N_sub, N_b_tiff>>
          /\ tasks[i].out = <<N_out, N_b_png>>

----------------------------------------------------------------------------
(* The end of a run, and a second run *)

\* main() has reached line 84: input_dir is a directory, output_dir exists,
\* the session is made.
ValidationPassed == pc = "list" \/ listed

\* The last line printed is the summary of the counters and output_dir.
SummaryEmitted ==
    /\ pc = "done"
    /\ stdout # <<>>
    /\ stdout[Len(stdout)] =
          [msg |-> "summary", ok |-> ok, fails |-> fails, out |-> args.output_dir]

\* How far the run has come: every step of main and of a worker raises it,
\* and it cannot exceed 6 + 31 * Len(files).
PcRank ==
    CASE pc = "check_input" -> 0 [] pc = "mkdir_out" -> 1
      [] pc = "new_session" -> 2 [] pc = "list" -> 3 [] pc = "submit" -> 4
      [] pc = "collect" -> 5 [] OTHER -> 6

\* The system calls line 35 may still make, at most: a call of Path.mkdir
\* whose os.mkdir has failed has its is_dir() left; one without 'parents'
\* has its os.mkdir and that; one with 'parents' may go up every level of
\* its path.
RECURSIVE MkdirLeft(_)
MkdirLeft(mk) ==
    IF mk = <<>> THEN 0
    ELSE LET top == mk[Len(mk)]
         IN  MkdirLeft(SubSeq(mk, 1, Len(mk) - 1))
             + (IF top.e # "none" THEN 1
                ELSE IF ~top.parents THEN 2
                ELSE 3 * Len(top.p) + 2)

StageRank(t) ==
    (CASE t.st = "queued" -> 1 [] t.st = "check" -> 2
       [] t.st = "mkdir" -> 23 - MkdirLeft(t.mk)
       [] t.st = "open" -> 24 [] t.st = "load" -> 25 [] t.st = "remove" -> 26
       [] t.st = "save" -> 27 [] t.st = "save_open" -> 28
       [] t.st = "save_write" -> 29
       [] OTHER -> 30)
    + (IF t.collected THEN 1 ELSE 0)

RECURSIVE SumRanks(_, _)
SumRanks(q, n) == IF n = 0 THEN 0 ELSE StageRank(q[n]) + SumRanks(q, n - 1)

Rank(p, q) == p + SumRanks(q, Len(q))

\* No step is left: main has none, no call of process_one is running and
\* none is queued.
Stopped ==
    /\ pc \notin {"check_input", "mkdir_out", "new_session", "list", "submit"}
    /\ pc = "collect" =>
          /\ \A i \in TaskIds : ~(tasks[i].st = "finished" /\ ~tasks[i].collected)
          /\ \E i \in TaskIds : ~tasks[i].collected
    /\ \A i \in TaskIds : tasks[i].st = "finished"

\* C8 as stated: every run that passes the validation of its configuration
\* ends by printing the summary: it stops nowhere else.
C8_Original == (ValidationPassed /\ Stopped) => SummaryEmitted

\* C8, amended: every run that passes the validation of its configuration
\* and discovers at least one file ends by printing the summary, whatever
\* the number of failed items: it stops nowhere else, and every step brings
\* it closer to the end.
C8_SummaryEmitted ==
    /\ []((ValidationPassed /\ files # <<>> /\ Stopped) => SummaryEmitted)
    /\ [][Rank(PcRank, tasks)' > Rank(PcRank, tasks)]_vars

C8_Witness ==
    /\ SummaryEmitted
    /\ Len(files) = 2
    /\ fails = 2

BackendCalls == Count(LAMBDA i : tasks[i].calls > 0)

\* C3 as stated: at the end of a second run with force unset (in which no
\* step failed for a reason outside the items), the backend was called for
\* no item, every item is a success by the skip path, and the files are
\* those the first run left.
C3_Original ==
    (run = "second" /\ pc = "done"
       /\ \A i \in TaskIds : tasks[i].err \notin {"OSError", "TransformError"}) =>
        /\ BackendCalls = 0
        /\ \A i \in TaskIds : tasks[i].success /\ tasks[i].skipped
        /\ DOMAIN fs = DOMAIN prev

\* C3, amended: in a second run with force unset, an item whose destination
\* exists after the first run is not processed again: the backend is not
\* called for it, its destination stays as the first run left it, and its
\* outcome is a success by the skip path (a failure only when the existence
\* check itself raised).  An item whose destination does not exist after
\* the first run is skipped only when another item of the second run, with
\* the same destination or one below it, has passed its own skip test
\* unskipped; when no other item has such a destination it is not skipped,
\* and if it succeeds the backend was called once for it and its
\* destination is written.  When every item's destination exists after the
\* first run, the second run calls the backend for none and leaves the
\* filesystem as it was.
C3_SecondRunSkips ==
    run = "second" =>
        /\ \A i \in TaskIds :
              Exists(prev, tasks[i].out) =>
                  /\ tasks[i].calls = 0
                  /\ fs[tasks[i].out] = prev[tasks[i].out]
                  /\ tasks[i].st = "finished" =>
                        \/ tasks[i].success /\ tasks[i].skipped
                        \/ ~tasks[i].success /\ tasks[i].err = "OSError"
                  /\ tasks[i].st \in {"queued", "check", "finished"}
        /\ \A i \in TaskIds :
              (~Exists(prev, tasks[i].out) /\ tasks[i].st = "finished") =>
                  /\ tasks[i].skipped =>
                        \E j \in TaskIds \ {i} :
                            /\ tasks[i].out \in Prefixes(tasks[j].out)
                            /\ tasks[j].st \notin {"queued", "check"}
                            /\ ~tasks[j].skipped
                  /\ (\A j \in TaskIds \ {i} :
                         tasks[i].out \notin Prefixes(tasks[j].out)) =>
                        /\ ~tasks[i].skipped
                        /\ tasks[i].success =>
                              /\ tasks[i].calls = 1
                              /\ fs[tasks[i].out] = FileEntry(TRUE, tasks[i].src)
        /\ (pc = "done" /\ \A i \in TaskIds : Exists(prev, tasks[i].out)) =>
              /\ BackendCalls = 0
              /\ fs = prev

C3_Witness ==
    /\ run = "second"
    /\ pc = "done"
    /\ Len(files) = 2
    /\ \E i, j \in TaskIds :
          /\ tasks[i].skipped
          /\ Exists(prev, tasks[i].out)
          /\ prev[tasks[i].out].from = tasks[i].src
          /\ ~Exists(prev, tasks[j].out) /\ tasks[j].calls = 1

----------------------------------------------------------------------------
(* The resize before the transform *)

\* The backend has been called for task i.
HandedToBackend(i) == tasks[i].calls > 0

\* C11: with --max-size D given, the image handed to the backend is at most
\* D wide and D high when the source is wider or higher than D, and has the
\* source's size when the source is at most D wide and high; with
\* --max-size absent it has the source's size.  It fails for D = 0, which
\* line 67 accepts and line 38 takes for absent.
C11_ResizeBound ==
    \A i \in TaskIds :
        HandedToBackend(i) =>
            LET s == fs[tasks[i].src].size
                h == tasks[i].size
                D == args.max_size.px
            IN  IF args.max_size.given
                THEN /\ (s[1] > D \/ s[2] > D) => (h[1] <= D /\ h[2] <= D)
                     /\ (s[1] <= D /\ s[2] <= D) => h = s
                     /\ h[1] >= 1 /\ h[2] >= 1
                ELSE h = s

----------------------------------------------------------------------------
(* The pool *)

\* C12: at every moment at most max(1, jobs) calls of process_one are
\* executing, whatever the sign of jobs and the number of files.
C12_BoundedConcurrency ==
    Cardinality({i \in TaskIds : tasks[i].st \notin {"queued", "finished"}})
        <= (IF args.jobs >= 1 THEN args.jobs ELSE 1)

\* With a negative --jobs and three files, one call executes while another
\* waits in the pool's queue and a third has returned.
C12_Witness ==
    /\ args.jobs < 0
    /\ Len(tasks) = 3
    /\ tasks[1].st = "finished"
    /\ tasks[2].st \in RunningStates
    /\ tasks[3].st = "queued"

\* The calls of process_one that never return.
Hung == {i \in TaskIds : tasks[i].st = "hung"}

\* max(1, jobs)
Workers == IF args.jobs >= 1 THEN args.jobs ELSE 1

\* No step is left when calls may hang: main has none, every call has
\* returned and been counted, hangs, or waits for a worker that no returning
\* call will free.
NoStepLeft ==
    /\ pc \notin {"check_input", "mkdir_out", "new_session", "list", "submit"}
    /\ \A i \in TaskIds :
          \/ tasks[i].st = "hung"
          \/ tasks[i].st = "finished" /\ (pc = "collect" => tasks[i].collected)
          \/ tasks[i].st = "queued" /\ Cardinality(Running) >= MaxWorkers(args.jobs)
    /\ pc = "collect" => \E i \in TaskIds : ~tasks[i].collected

\* Task i's outcome has been counted and, if a failure, printed with its
\* source path.
Reported(i) ==
    /\ tasks[i].st = "finished"
    /\ tasks[i].collected
    /\ ~tasks[i].success =>
          \E k \in 1..Len(stdout) :
              stdout[k] = [msg |-> "error", path |-> tasks[i].src,
                           err |-> tasks[i].err]

\* C13 as stated: when one call never returns and the run has come to rest,
\* every other item has an outcome that was counted and reported.
C13_Original ==
    (Cardinality(Hung) = 1 /\ NoStepLeft) =>
        \A i \in TaskIds \ Hung : Reported(i)

\* C13: when fewer calls hang than the pool has workers, the run comes to
\* rest only after every other item has an outcome that was counted and
\* reported; a run with a hung call never prints the summary; and every
\* step is progress, so the run does come to rest.
C13_HungHoldsOneSlot ==
    /\ []((Hung # {} /\ Cardinality(Hung) < Workers /\ NoStepLeft) =>
              \A i \in TaskIds \ Hung : Reported(i))
    /\ [](Hung # {} => ~SummaryEmitted)
    /\ [][Rank(PcRank, tasks)' > Rank(PcRank, tasks)]_vars

\* Two workers, the first call hangs: the run rests with the other two
\* items counted, one of them a failure.
C13_Witness ==
    /\ args.jobs = 2
    /\ Len(tasks) = 3
    /\ Hung = {1}
    /\ NoStepLeft
    /\ Reported(2) /\ Reported(3)
    /\ \E i \in {2, 3} : ~tasks[i].success

\* C14: once the summary is printed, every discovered file has been
\* submitted, every submitted call has returned and been counted, none is
\* queued, running or hung, and the summary is the last line printed.
C14_SummaryAfterAll ==
    (\E k \in 1..Len(stdout) : stdout[k].msg = "summary") =>
        /\ pc = "done"
        /\ Len(tasks) = Len(files)
        /\ \A i \in TaskIds : tasks[i].st = "finished" /\ tasks[i].collected
        /\ ok + fails = Len(tasks)
        /\ stdout[Len(stdout)].msg = "summary"
        /\ \A k \in 1..(Len(stdout) - 1) : stdout[k].msg # "summary"

\* The summary is printed after the first item failed and the two submitted
\* after it were processed and written.
C14_Witness ==
    /\ SummaryEmitted
    /\ Len(tasks) = 3
    /\ Failed(1)
    /\ \A i \in {2, 3} : Succeeded(i) /\ tasks[i].calls = 1

\* The failure lines printed so far.
ErrorLines == {k \in 1..Len(stdout) : stdout[k].msg = "error"}

\* C15: the bar has one tick per counted outcome and every counted failure
\* has one printed line naming its source; a call that has returned can be
\* counted at once, whatever the calls submitted before it are doing; and
\* when the summary is printed the bar has one tick per submitted item and
\* every failure line precedes the summary.
C15_CompletionOrder ==
    /\ bar = Count(Collected)
    /\ ok + fails = bar
    /\ Cardinality(ErrorLines) = fails
    /\ \A i \in TaskIds : Collected(i) => Reported(i)
    /\ \A i \in TaskIds :
          (pc = "collect" /\ tasks[i].st = "finished" /\ ~Collected(i)) =>
              ENABLED Collect(i)
    /\ (\E k \in 1..Len(stdout) : stdout[k].msg = "summary") =>
          /\ bar = Len(tasks)
          /\ \A k \in ErrorLines : k < Len(stdout)

\* The second item failed, was counted and had its line printed while the
\* first, submitted before it, is still in the backend.
C15_Witness ==
    /\ Len(tasks) >= 2
    /\ tasks[1].st = "remove"
    /\ Failed(2) /\ Reported(2)
    /\ bar = 1 /\ fails = 1

----------------------------------------------------------------------------
(* The life of one item *)

\* The steps of one call of process_one: submitted and queued, the skip
\* test, then either the result (skipped) or mkdir, open, the read of the
\* pixels, the backend, and save (its existence test, its open, its write),
\* each of which either goes on or ends the call with its result.
ItemSteps ==
    { <<"queued", "check">>, <<"check", "mkdir">>, <<"check", "finished">>,
      <<"mkdir", "open">>, <<"mkdir", "finished">>, <<"open", "load">>,
      <<"open", "finished">>, <<"load", "remove">>, <<"load", "finished">>,
      <<"remove", "save">>, <<"remove", "finished">>,
      <<"save", "save_open">>, <<"save", "finished">>,
      <<"save_open", "save_write">>, <<"save_open", "finished">>,
      <<"save_write", "finished">> }

\* C16: every discovered file is submitted once (task i is file i and no
\* file is listed twice), the backend is called at most once per item and
\* never for a skipped item; an item moves only along ItemSteps, is skipped
\* only by the skip test, and once it has its result nothing but the
\* counting of that result changes it.
C16_ItemStateMachine ==
    /\ [](/\ Len(tasks) <= Len(files)
          /\ \A i, j \in 1..Len(files) : i # j => files[i] # files[j]
          /\ \A i \in TaskIds :
                /\ tasks[i].src = files[i]
                /\ tasks[i].calls <= 1
                /\ tasks[i].skipped => (Succeeded(i) /\ tasks[i].calls = 0)
                /\ tasks[i].collected => tasks[i].st = "finished"
          /\ pc = "done" => Len(tasks) = Len(files))
    /\ [][/\ Len(tasks') >= Len(tasks)
          /\ \A i \in TaskIds :
                /\ tasks[i].st # tasks'[i].st =>
                      <<tasks[i].st, tasks'[i].st>> \in ItemSteps
                /\ (tasks'[i].skipped /\ ~tasks[i].skipped) =>
                      tasks[i].st = "check"
                /\ tasks'[i].calls >= tasks[i].calls
                /\ tasks[i].st = "finished" =>
                      \/ tasks'[i] = tasks[i]
                      \/ tasks'[i] = [tasks[i] EXCEPT !.collected = TRUE]]_vars

\* Of two items, one was skipped and the other failed in the backend, which
\* was called once; both results have been counted.
C16_Witness ==
    /\ pc = "done"
    /\ \E i, j \in TaskIds :
          /\ tasks[i].skipped /\ Succeeded(i)
          /\ Failed(j) /\ tasks[j].calls = 1 /\ tasks[j].err = "TransformError"

----------------------------------------------------------------------------
(* Items that share a destination *)

\* C17: with force unset, when the batch has finished, the destination of
\* every item counted as succeeded exists, and if a worker of this run wrote
\* it, it holds a completely written output.
C17_BenignRace ==
    (pc = "done" /\ ~args.force) =>
        \A i \in TaskIds :
            (Succeeded(i) /\ Collected(i)) =>
                /\ Exists(fs, tasks[i].out)
                /\ (IsFile(fs, tasks[i].out) /\ fs[tasks[i].out].from # <<>>) =>
                      fs[tasks[i].out].ok

----------------------------------------------------------------------------
(* One worker after the other *)

\* process_one run from start to end on filesystem f with nothing else
\* running and no failure from outside: the filesystem it leaves and its
\* result.
ProcessOneAlone(f, t) ==
    LET parent == Parent(t.out)
        f1     == Mkdir(f, parent)
        im     == Resized(f1[t.src].size, args.max_size)
    IN  IF ShouldSkip(f, t.out, args.force) THEN [fs |-> f, success |-> TRUE]
        ELSE IF MkdirError(f, parent) # "none" THEN [fs |-> f, success |-> FALSE]
        ELSE IF OpenError(f1, t.src) # "none" THEN [fs |-> f1, success |-> FALSE]
        ELSE IF ThumbnailError(args.max_size) # "none"
        THEN [fs |-> f1, success |-> FALSE]
        ELSE IF SaveError(f1, t.out) # "none" THEN [fs |-> f1, success |-> FALSE]
        ELSE [fs      |-> WriteFile(f1, t.out, ImageEntry(TRUE, t.src, im)),
              success |-> TRUE]

\* The first n submitted items processed one after the other in the order
\* of submission, from filesystem f: the filesystem left and the results.
RECURSIVE SequentialRun(_, _)
SequentialRun(f, n) ==
    IF n = 0 THEN [fs |-> f, success |-> <<>>]
    ELSE LET before == SequentialRun(f, n - 1)
             this   == ProcessOneAlone(before.fs, tasks[n])
         IN  [fs |-> this.fs, success |-> Append(before.success, this.success)]

----------------------------------------------------------------------------
(* One item's failure and the other items *)

\* The filesystem process_one starts on: line 74 has made output_dir.
AfterLine74 == Mkdir(fs0, args.output_dir)

\* Item j processed alone from the start of the run, with nothing failing
\* from outside.
Alone(j) == ProcessOneAlone(AfterLine74, tasks[j])

\* A step of item j failed for a reason outside the filesystem's contents:
\* an I/O error, the backend.
OutsideFailure(j) == tasks[j].err \in {"OSError", "TransformError"}

\* No item's destination is another item's destination, a directory above
\* it, or its source.
Independent ==
    \A i, j \in TaskIds :
        i # j => /\ tasks[i].out \notin Prefixes(tasks[j].out)
                 /\ tasks[i].out # tasks[j].src

\* The discovered items are regular files, exactly one of which does not
\* decode.
OneCorruptAmongValid ==
    /\ \A i \in TaskIds : IsFile(fs, tasks[i].src)
    /\ Count(LAMBDA i : ~fs[tasks[i].src].ok) = 1

\* No step of an item that decodes failed for a reason outside the item:
\* no I/O error, no failure of the backend.
NoOutsideFailure ==
    \A i \in TaskIds : fs[tasks[i].src].ok => ~OutsideFailure(i)

\* Every item that decodes has its destination written from it.
ValidItemsWritten ==
    \A i \in TaskIds :
        fs[tasks[i].src].ok =>
            /\ IsFile(fs, tasks[i].out)
            /\ fs[tasks[i].out] = FileEntry(TRUE, tasks[i].src)

\* Before the run no directory lies at a destination, a file lies there
\* only when force is set, and no file lies where a destination's directory
\* has to be.
DestinationsWritable ==
    \A i \in TaskIds :
        /\ ~IsDir(AfterLine74, tasks[i].out)
        /\ IsFile(AfterLine74, tasks[i].out) => args.force
        /\ ~\E q \in Prefixes(Parent(tasks[i].out)) : IsFile(AfterLine74, q)

\* C2 as stated: one corrupted input among N valid inputs with distinct
\* destinations gives ok = N - 1 and fails = 1, the other N - 1 destinations
\* written.
C2_Original ==
    (pc = "done" /\ OneCorruptAmongValid /\ DistinctDestinations /\ NoOutsideFailure)
      => (ok = Len(files) - 1 /\ fails = 1 /\ ValidItemsWritten)

\* C2, amended: (1) a call of process_one ends as a success or as a failure
\* with its error, whatever step failed; (2) a failure aborts nothing: a run
\* that has discovered files stops only at the summary, every item counted;
\* (3) when no item's destination is another item's destination, a
\* directory above it or its source, an item that no outside failure hit has
\* the result and the destination it has when processed alone, whatever
\* failed in the other items at whatever step; (4) one corrupted input among
\* N otherwise valid inputs with distinct destinations gives ok = N - 1 and
\* fails = 1 with the other N - 1 destinations written, when before the run
\* the destinations are writable: no directory there, a file only with
\* force set, no file where a directory has to be.
C2_Isolation ==
    /\ \A j \in TaskIds :
          tasks[j].st = "finished" =>
              /\ tasks[j].success <=> tasks[j].err = "none"
              /\ OutsideFailure(j) => ~tasks[j].success
    /\ (ValidationPassed /\ files # <<>> /\ Stopped) =>
          /\ pc = "done"
          /\ \A j \in TaskIds : Collected(j)
          /\ ok + fails = Len(files)
    /\ Independent =>
          \A j \in TaskIds :
              (tasks[j].st = "finished" /\ ~OutsideFailure(j)) =>
                  /\ tasks[j].success = Alone(j).success
                  /\ EntryAt(fs, tasks[j].out) = EntryAt(Alone(j).fs, tasks[j].out)
    /\ (pc = "done" /\ OneCorruptAmongValid /\ DistinctDestinations
          /\ NoOutsideFailure /\ DestinationsWritable)
         => (ok = Len(files) - 1 /\ fails = 1 /\ ValidItemsWritten)

\* Two workers, two items with destinations of their own: the save of one
\* failed after its backend call, the other decoded, was transformed and
\* has its destination written over the file that lay there, force being
\* set.
C2_Witness ==
    /\ pc = "done"
    /\ Independent
    /\ args.jobs = 2
    /\ args.force
    /\ \E i, j \in TaskIds :
          /\ Failed(i) /\ tasks[i].err = "OSError" /\ tasks[i].calls = 1
          /\ Succeeded(j) /\ ~tasks[j].skipped
          /\ IsFile(fs0, tasks[j].out)
          /\ fs[tasks[j].out] = FileEntry(TRUE, tasks[j].src)

----------------------------------------------------------------------------
(* Schedules *)

\* No backend call raised and no step failed with an I/O error from outside.
NoInjectedFailure ==
    \A i \in TaskIds : tasks[i].err \notin {"OSError", "TransformError"}

\* C18: when no two items share a destination and nothing fails from
\* outside, a finished batch has, whatever the worker count and the
\* interleaving, the results, the counts and the files of the run that
\* processes the items one after the other from the same start.
C18_ScheduleIndependence ==
    (pc = "done" /\ DistinctDestinations /\ NoInjectedFailure) =>
        LET one == SequentialRun(Mkdir(fs0, args.output_dir), Len(tasks))
        IN  /\ \A i \in TaskIds : tasks[i].success = one.success[i]
            /\ ok = Cardinality({i \in TaskIds : one.success[i]})
            /\ fails = Cardinality({i \in TaskIds : ~one.success[i]})
            /\ DOMAIN fs = DOMAIN one.fs

----------------------------------------------------------------------------
(* What a run writes *)

\* The paths that hold something else than at the start of the run.
Changed == {p \in DOMAIN fs0 \cap DOMAIN fs : fs[p] # fs0[p]}

\* The paths the run created.
Created == DOMAIN fs \ DOMAIN fs0

Destinations == {tasks[i].out : i \in TaskIds}

Sources == {tasks[i].src : i \in TaskIds}

\* C19 as stated: no discovered source is ever overwritten or modified, and
\* the run writes only destinations and their missing parent directories
\* (output_dir among them).
C19_Original ==
    /\ \A p \in Sources : p \in DOMAIN fs /\ fs[p] = fs0[p]
    /\ Changed \subseteq Destinations
    /\ \A p \in Created :
          \/ p \in Destinations \/ p \in Prefixes(args.output_dir)
          \/ \E d \in Destinations : p \in Prefixes(Parent(d))

\* C19: a run deletes nothing; it creates only destinations, their missing
\* parent directories and output_dir with its missing parents; it changes
\* existing paths only when force is set, and then only files that are
\* destinations; such a file is a discovered source only when output_dir is
\* input_dir or lies below it.
C19_SourcesKept ==
    /\ DOMAIN fs0 \subseteq DOMAIN fs
    /\ \A p \in Created :
          \/ p \in Destinations \/ p \in Prefixes(args.output_dir)
          \/ \E d \in Destinations : p \in Prefixes(Parent(d))
    /\ Changed # {} => args.force
    /\ \A p \in Changed :
          /\ IsFile(fs0, p) /\ IsFile(fs, p)
          /\ \E i \in TaskIds : tasks[i].out = p /\ fs[p].from = tasks[i].src
    /\ Changed \cap Sources # {} => IsPrefix(args.input_dir, args.output_dir)

\* With --force and output_dir = input_dir, the output of a.jpg has
\* replaced the discovered source a.png.
C19_Witness ==
    /\ pc = "done"
    /\ args.output_dir = args.input_dir
    /\ \E i, j \in TaskIds :
          /\ i # j
          /\ tasks[j].src = tasks[i].out
          /\ tasks[j].src \in Changed
          /\ fs[tasks[j].src].from = tasks[i].src

====
